---- MODULE Spec2Model ----
(***************************************************************************)
(* A model of soloact/data/make_dataset.py: the label flattener, the       *)
(* randomisation utility, the batch padder, the track augmenter and the    *)
(* dataset assembler.                                                      *)
(*                                                                         *)
(* Encodings.                                                              *)
(*  - A Python str that the code takes apart (a path, a label key) is a    *)
(*    sequence of letters, each letter a TLA+ string; concatenation is \o  *)
(*    and '' is <<>>.  A str the code only compares (an effect name, a     *)
(*    policy state) is a TLA+ string.                                      *)
(*  - A Python dict is a sequence of entries [k |-> key, v |-> value] with *)
(*    pairwise distinct keys, in insertion order.                          *)
(*  - A value handed to flatten is a node [leaf, val, items]: a dict has   *)
(*    leaf = FALSE and its entries in items, anything else has leaf = TRUE *)
(*    and the value in val.                                                *)
(*  - A Python number, list or None is [t, n, f]: t is "num", "list" or    *)
(*    "None"; a number's value is n / Scale and f says it is a float.      *)
(*  - An exception is the status of a result; "ok" is a normal return.     *)
(***************************************************************************)
EXTENDS Integers, Sequences, FiniteSets, TLC

VARIABLES
    x,          \* flatten: the mapping handed to flatten
    out,        \* flatten: [done, d]: whether flatten(x) has returned, and what
    passes,     \* flatten: how many times flatten has been applied in a row
    rx, ry,     \* rand: the bounds handed to rand
    rres,       \* rand: [done, status, val]: what rand(rx, ry) did
    l_arrays,   \* pad: the list of 2-D arrays handed to pad
    batch_x,    \* pad: [done, status, batch]: what pad(l_arrays) did
    t_file, t_n, t_kwargs,  \* augment_track: the arguments of one call
    t_res,      \* augment_track: what the call did
    augmentation_config,    \* augment_data: config['DataAugmentation']
    source,                 \* augment_data: the track kind
    train_soundfiles,       \* augment_data: the files, after subsampling
    n_augment,              \* augment_data: repetitions per file
    write_with_effects_to,  \* augment_data: [set, path]
    answer,                 \* augment_data: the line the console would give
    valid,                  \* augment_data: what validate_reduce_fx said
    pc,                     \* augment_data: where the run is
    err,                    \* augment_data: the exception that ended the run
    store_all,              \* augment_data: the (labels, features) pairs so far
    X_train, Y_train,       \* augment_data: the returned tensor and table
    made_dirs,              \* augment_data: directories created
    artifacts               \* augment_data: training artifacts written

flattenVars == <<x, out, passes>>
randVars == <<rx, ry, rres>>
padVars == <<l_arrays, batch_x>>
trackVars == <<t_file, t_n, t_kwargs, t_res>>
dataVars == <<augmentation_config, source, train_soundfiles, n_augment,
              write_with_effects_to, answer, valid, pc, err, store_all,
              X_train, Y_train, made_dirs, artifacts>>

vars == <<flattenVars, randVars, padVars, trackVars, dataVars>>

(***************************************************************************)
(* dict helpers                                                            *)
(***************************************************************************)
DictKeys(d) == {d[i].k : i \in 1..Len(d)}

DictHas(d, key) == \E i \in 1..Len(d) : d[i].k = key

\* d[key]
DictVal(d, key) == d[CHOOSE i \in 1..Len(d) : d[i].k = key].v

\* d[key] = val : an existing key keeps its position, a new key goes last
DictSet(d, key, val) ==
    IF DictHas(d, key)
    THEN [i \in 1..Len(d) |-> IF d[i].k = key THEN [k |-> key, v |-> val] ELSE d[i]]
    ELSE Append(d, [k |-> key, v |-> val])

\* {**a, **b}
RECURSIVE DictMerge(_, _)
DictMerge(a, b) ==
    IF b = <<>> THEN a
    ELSE DictMerge(DictSet(a, Head(b).k, Head(b).v), Tail(b))

\* [e for e in s if Keep(e)]
RECURSIVE SelectEntries(_, _)
SelectEntries(d, keep) ==
    IF d = <<>> THEN <<>>
    ELSE IF Head(d).k \in keep
         THEN <<Head(d)>> \o SelectEntries(Tail(d), keep)
         ELSE SelectEntries(Tail(d), keep)

Leaf(v) == [leaf |-> TRUE, val |-> v, items |-> <<>>]
Node(d) == [leaf |-> FALSE, val |-> 0, items |-> d]

(***************************************************************************)
(* flatten(x, par = '', sep = '.')                                         *)
(***************************************************************************)
sep == <<".">>

\* the key a leaf k is stored under, below the parent key par
leafKey(par, k) == par \o sep \o k

\* the parent key handed down for the mapping under k
childPar(par, k) == IF par # <<>> THEN par \o sep \o k ELSE k

RECURSIVE flattenFrom(_, _, _)
\* the loop over x.items(), from the entries d on, with the store so far
flattenFrom(d, par, store) ==
    IF d = <<>> THEN store
    ELSE LET k == Head(d).k
             v == Head(d).v
         IN IF ~v.leaf
            THEN flattenFrom(Tail(d), par,
                     DictMerge(store, flattenFrom(v.items, childPar(par, k), <<>>)))
            ELSE flattenFrom(Tail(d), par, DictSet(store, leafKey(par, k), v))

flatten(d) == flattenFrom(d, <<>>, <<>>)

(***************************************************************************)
(* Numbers, lists and None.                                                *)
(***************************************************************************)
Scale == 2

IntV(k) == [t |-> "num", n |-> k * Scale, f |-> FALSE]
FloatV(m) == [t |-> "num", n |-> m, f |-> TRUE]
ListV(id) == [t |-> "list", n |-> id, f |-> FALSE]
NoneV == [t |-> "None", n |-> 0, f |-> FALSE]
One == Scale

IsIntegral(v) == v.n % Scale = 0

Min(a, b) == IF a <= b THEN a ELSE b
Max(a, b) == IF a >= b THEN a ELSE b

Raised(e) == [done |-> TRUE, status |-> e, val |-> NoneV]
Returned(v) == [done |-> TRUE, status |-> "ok", val |-> v]
NoRes == [done |-> FALSE, status |-> "none", val |-> NoneV]

(***************************************************************************)
(* random.uniform(a, b) is a + (b - a) * random(): a float between the two *)
(* bounds, whichever is the larger.                                        *)
(***************************************************************************)
uniform(a, b) == {Returned(FloatV(v)) : v \in Min(a.n, b.n)..Max(a.n, b.n)}

(***************************************************************************)
(* random.randint(a, b) is randrange(a, b + 1), as up to Python 3.11: a    *)
(* bound that is not an integer value is a ValueError, a float that holds  *)
(* an integer value is taken as that integer, and an empty range a > b is  *)
(* a ValueError.  (From 3.12 on every float bound is a TypeError.)         *)
(***************************************************************************)
randint(a, b) ==
    IF ~IsIntegral(a) \/ ~IsIntegral(b) THEN {Raised("ValueError")}
    ELSE IF a.n > b.n THEN {Raised("ValueError")}
    ELSE {Returned(IntV(k)) : k \in (a.n \div Scale)..(b.n \div Scale)}

\* rand(x, y): the things one call can do.  v < 1 on a list or None is a TypeError.
rand(a, b) ==
    IF a.t # "num" \/ b.t # "num"
    THEN {Raised("TypeError")}
    ELSE IF a.n < One /\ b.n < One
         THEN uniform(a, b)
         ELSE randint(a, b)

(***************************************************************************)
(* pad(l_arrays).  A 2-D array is [shape |-> <<r, c>>, data], data[i][j]    *)
(* its entry in row i, column j.                                           *)
(***************************************************************************)
Array(r, c, rows) == [shape |-> <<r, c>>, data |-> rows]

\* max(shapes, key = lambda x: x[0]): the first of the shapes with the largest x[0]
RECURSIVE maxByFirst(_, _)
maxByFirst(shapes, best) ==
    IF shapes = <<>> THEN best
    ELSE maxByFirst(Tail(shapes), IF Head(shapes)[1] > best[1] THEN Head(shapes) ELSE best)

max_shape(l) == maxByFirst(Tail([i \in 1..Len(l) |-> l[i].shape]), l[1].shape)

\* zero_grid[:x, :y] = inp is refused unless inp broadcasts to the slice
copyFits(inp, ms) ==
    LET y == inp.shape[2]
        t == Min(y, ms[2])
    IN y = t \/ y = 1

padder(inp, ms) ==
    LET zx == inp.shape[1]
        zy == Min(inp.shape[2], ms[2])
        cell(i, j) == IF i <= zx /\ j <= zy THEN inp.data[i][j] ELSE 0
    IN Array(ms[1], ms[2], [i \in 1..ms[1] |-> [j \in 1..ms[2] |-> cell(i, j)]])

pad(l) ==
    IF l = <<>>
    THEN [done |-> TRUE, status |-> "ValueError", batch |-> <<>>]
    ELSE LET ms == max_shape(l)
         IN IF \E i \in 1..Len(l) : ~copyFits(l[i], ms)
            THEN [done |-> TRUE, status |-> "ValueError", batch |-> <<>>]
            ELSE [done |-> TRUE, status |-> "ok",
                  batch |-> [i \in 1..Len(l) |-> padder(l[i], ms)]]

NoBatch == [done |-> FALSE, status |-> "none", batch |-> <<>>]

(***************************************************************************)
(* str operations                                                          *)
(***************************************************************************)
\* s.split(c)
RECURSIVE splitFrom(_, _, _)
splitFrom(s, c, cur) ==
    IF s = <<>> THEN <<cur>>
    ELSE IF Head(s) = c
         THEN <<cur>> \o splitFrom(Tail(s), c, <<>>)
         ELSE splitFrom(Tail(s), c, Append(cur, Head(s)))

split(s, c) == splitFrom(s, c, <<>>)

\* s.rstrip(chars): trailing letters that are in chars are dropped
RECURSIVE rstrip(_, _)
rstrip(s, chars) ==
    IF s # <<>> /\ s[Len(s)] \in chars
    THEN rstrip(SubSeq(s, 1, Len(s) - 1), chars)
    ELSE s

\* sub in s
contains(s, sub) ==
    \E i \in 1..(Len(s) - Len(sub) + 1) : SubSeq(s, i, i + Len(sub) - 1) = sub

\* os.path.join(a, b)
pathJoin(a, b) ==
    IF b # <<>> /\ Head(b) = "/" THEN b
    ELSE IF a = <<>> \/ a[Len(a)] = "/" THEN a \o b
    ELSE a \o <<"/">> \o b

\* str(n) of a small repetition index
str(n) == <<ToString(n)>>

\* l[ix] for a negative index ix; ok says whether the index is in range
negIndex(l, ix) ==
    IF Len(l) + 1 + ix >= 1
    THEN [ok |-> TRUE, val |-> l[Len(l) + 1 + ix]]
    ELSE [ok |-> FALSE, val |-> <<>>]

(***************************************************************************)
(* The effect library: the methods of sox.Transformer the model knows, and *)
(* the declared defaults of their parameters.                              *)
(***************************************************************************)
sox_arsenal == {"overdrive", "reverb", "compand"}

\* {k: signature(effect_f).parameters[k].default}
f_defaults(effect) ==
    CASE effect = "overdrive" ->
           <<[k |-> "gain_db", v |-> FloatV(20 * Scale)],
             [k |-> "colour", v |-> FloatV(20 * Scale)]>>
      [] effect = "reverb" ->
           <<[k |-> "reverberance", v |-> FloatV(50 * Scale)]>>
      [] effect = "compand" ->
           <<[k |-> "soft_knee_db", v |-> FloatV(6 * Scale)],
             [k |-> "tf_points", v |-> ListV(1)]>>
      [] OTHER -> <<>>

\* f_defaults.get(param)
defaultOf(effect, param) ==
    IF DictHas(f_defaults(effect), param)
    THEN DictVal(f_defaults(effect), param)
    ELSE NoneV

\* exercise.lower()
lower(s) ==
    CASE s = "Classification" -> "classification"
      [] s = "Regression" -> "regression"
      [] OTHER -> s

(***************************************************************************)
(* augment_track: one parameter of an effect that proceeds.                *)
(* The result is [status, used].                                           *)
(***************************************************************************)
\* the assertion with >= for >
boundsCheck_weak(lo, up) ==
    IF lo.t # "num" \/ up.t # "num" THEN "TypeError"
    ELSE IF up.n >= lo.n THEN "ok"
    ELSE "AssertionError"

\* assert upper > lower: comparing a list or None with a number is a TypeError
boundsCheck(lo, up) ==
    IF lo.t # "num" \/ up.t # "num" THEN "TypeError"
    ELSE IF up.n > lo.n THEN "ok"
    ELSE "AssertionError"

\* the 'random' branch of the parameter loop
randomState(effect, param, val, used) ==
    IF defaultOf(effect, param).t # "list"
    THEN IF boundsCheck(val.lower, val.upper) # "ok"
         THEN {[status |-> boundsCheck(val.lower, val.upper), used |-> used]}
         ELSE {IF r.status = "ok"
               THEN [status |-> "ok", used |-> DictSet(used, param, r.val)]
               ELSE [status |-> r.status, used |-> used]
               : r \in rand(val.lower, val.upper)}
    ELSE {[status |-> "TypeError", used |-> used]}

resolveParam(effect, param, val, used) ==
    IF val.state = "constant"
    THEN {[status |-> "ok",
           used |-> DictSet(used, param,
                       IF val.default = TRUE THEN defaultOf(effect, param) ELSE val.upper)]}
    ELSE IF val.state = "random"
         THEN randomState(effect, param, val, used)
         ELSE {[status |-> "ok", used |-> used]}

RECURSIVE resolveParams(_, _, _)
resolveParams(effect, parameters, used) ==
    IF parameters = <<>> THEN {[status |-> "ok", used |-> used]}
    ELSE UNION {IF r.status = "ok"
                THEN resolveParams(effect, Tail(parameters), r.used)
                ELSE {r}
                : r \in resolveParam(effect, Head(parameters).k, Head(parameters).v, used)}

\* parameters of an effect the configuration does not give: None
NoParams == [none |-> TRUE, items |-> <<>>]
Params(d) == [none |-> FALSE, items |-> d]

\* getattr(FX, effect), the parameter loop, and effect_f(**used)
applyEffect(effect, parameters) ==
    IF effect \notin sox_arsenal THEN {[status |-> "AttributeError", used |-> <<>>]}
    ELSE IF parameters.none THEN {[status |-> "AttributeError", used |-> <<>>]}
    ELSE {IF r.status = "ok" /\ ~(DictKeys(r.used) \subseteq DictKeys(f_defaults(effect)))
          THEN [status |-> "TypeError", used |-> r.used]
          ELSE r
          : r \in resolveParams(effect, parameters.items, <<>>)}

\* the coin tossed for the sustained effects too
tossed_sustained_too(effect, exercise, sustain) == lower(exercise) = "classification"

\* whether the coin is tossed for this effect
tossed(effect, exercise, sustain) ==
    lower(exercise) = "classification" /\ effect \notin sustain

(***************************************************************************)
(* The loop over effects.items().  The result is [status, labels, applied]:*)
(* labels is the labels dict, applied the effects added to the transformer *)
(* in order.                                                               *)
(***************************************************************************)
RECURSIVE runChain(_, _, _, _, _)
runChain(effects, exercise, sustain, labels, applied) ==
    IF effects = <<>> THEN {[status |-> "ok", labels |-> labels, applied |-> applied]}
    ELSE LET effect == Head(effects).k
             parameters == Head(effects).v
             proceed ==
                 UNION {IF r.status = "ok"
                        THEN runChain(Tail(effects), exercise, sustain,
                                      DictSet(labels, effect, r.used),
                                      Append(applied, effect))
                        ELSE {[status |-> r.status, labels |-> labels, applied |-> applied]}
                        : r \in applyEffect(effect, parameters)}
             skip == runChain(Tail(effects), exercise, sustain, labels, applied)
         IN IF tossed(effect, exercise, sustain) THEN skip \cup proceed ELSE proceed

\* the labels dict as flatten sees it
labelTree(labels) ==
    [i \in 1..Len(labels) |->
        [k |-> <<labels[i].k>>,
         v |-> Node([j \in 1..Len(labels[i].v) |->
                       [k |-> <<labels[i].v[j].k>>, v |-> Leaf(labels[i].v[j].v)]])]]

(***************************************************************************)
(* The audio side, which the model does not compute: the feature vector of *)
(* a rendered track has one entry per frame of the file.                   *)
(***************************************************************************)
FileA == <<"d", "/", "g", "/", "e", "/", "C", ".", "w", "a", "v">>
FileB == <<"d", "/", "h", "/", "e", "/", "A", "v", ".", "w", "a", "v">>
FileC == <<"d", "/", "g", "/", "a", "u", "d", "i", "o", "/", "D", ".", "w", "a", "v">>
Files == {FileA, FileB, FileC}

frames(file) == IF file = FileA THEN 1 ELSE 2
coef(file) == IF file = FileA THEN 1 ELSE IF file = FileB THEN 2 ELSE 3

feature_pipeline(file) == [i \in 1..frames(file) |-> coef(file)]

(***************************************************************************)
(* augment_track(file, n, **kw)                                            *)
(***************************************************************************)
NoWrite == [set |-> FALSE, path |-> <<>>]
WriteTo(p) == [set |-> TRUE, path |-> p]

TrackRaised(e) ==
    [done |-> TRUE, status |-> e, flat |-> <<>>, feature |-> <<>>,
     labels |-> <<>>, applied |-> <<>>, outfile |-> <<>>]
NoTrack ==
    [done |-> FALSE, status |-> "none", flat |-> <<>>, feature |-> <<>>,
     labels |-> <<>>, applied |-> <<>>, outfile |-> <<>>]

\* the file FX.build writes when write is not False
outfileOf(file, n, write) ==
    LET segs == split(file, "/")
        model == IF ~contains(file, <<"/", "a", "u", "d", "i", "o", "/">>)
                 THEN negIndex(segs, 0 - 2) ELSE negIndex(segs, 0 - 3)
    IN IF ~model.ok THEN [ok |-> FALSE, path |-> <<>>]
       ELSE [ok |-> TRUE,
             path |-> pathJoin(pathJoin(write.path, model.val),
                               str(n) \o <<"_">> \o segs[Len(segs)])]

trackKeywords == {"effects", "exercise", "sustain", "write"}

augment_track(file, n, kw) ==
    IF ~(DOMAIN kw \subseteq trackKeywords) \/ "effects" \notin DOMAIN kw
    THEN {TrackRaised("TypeError")}
    ELSE LET exercise == IF "exercise" \in DOMAIN kw THEN kw.exercise ELSE "regression"
             sustain == IF "sustain" \in DOMAIN kw THEN kw.sustain ELSE {"overdrive", "reverb"}
             write == IF "write" \in DOMAIN kw THEN kw.write ELSE NoWrite
             of == outfileOf(file, n, write)
         IN {IF c.status # "ok" THEN TrackRaised(c.status)
             ELSE IF write.set /\ ~of.ok THEN TrackRaised("IndexError")
             ELSE [done |-> TRUE, status |-> "ok",
                   flat |-> DictSet(flatten(labelTree(c.labels)), <<"group">>, Leaf(n)),
                   feature |-> feature_pipeline(file),
                   labels |-> c.labels,
                   applied |-> c.applied,
                   outfile |-> IF write.set THEN of.path ELSE <<>>]
             : c \in runChain(kw.effects, exercise, sustain, <<>>, <<>>)}

(***************************************************************************)
(* validate_reduce_fx(effects): (True, effects) or (False, invalid names)  *)
(***************************************************************************)
validate_reduce_fx(effects) ==
    IF \A f \in DictKeys(effects) : f \in sox_arsenal
    THEN [valid |-> TRUE, isdict |-> TRUE, effects |-> effects, invalid |-> {}]
    ELSE [valid |-> FALSE, isdict |-> FALSE, effects |-> <<>>,
          invalid |-> {f \in DictKeys(effects) : f \notin sox_arsenal}]

(***************************************************************************)
(* augment_data: from the effects of the configuration to the chain        *)
(***************************************************************************)
Without(rec, key) == [k \in DOMAIN rec \ {key} |-> rec[k]]
With(rec, key, val) == [k \in DOMAIN rec \cup {key} |-> IF k = key THEN val ELSE rec[k]]

\* {k: v for k, v in effects.items() if k in active}
reduceToActive(effects, active) == SelectEntries(effects, active)

\* [f for f in effects.keys() if f not in ['reverb', 'overdrive']]
RECURSIVE middleOf(_)
middleOf(effects) ==
    IF effects = <<>> THEN <<>>
    ELSE IF Head(effects).k \notin {"reverb", "overdrive"}
         THEN <<Head(effects).k>> \o middleOf(Tail(effects))
         ELSE middleOf(Tail(effects))

order(effects) == <<"overdrive">> \o middleOf(effects) \o <<"reverb">>

\* ordered_effects without the fixed order: the active effects as configured
ordered_effects_as_configured(effects) == effects

\* OrderedDict.fromkeys(order), then ordered_effects[k] = v for every effect
ordered_effects(effects) ==
    DictMerge([i \in 1..Len(order(effects)) |-> [k |-> order(effects)[i], v |-> NoParams]],
              effects)

(***************************************************************************)
(* augment_data: the confirmation of writing augmented audio               *)
(***************************************************************************)
\* the module never binds INTERIM_DIR: reading it is a NameError
INTERIM_DIR == [bound |-> FALSE, path |-> <<>>]

Digits == <<"0", "1", "2", "3", "4", "5", "6", "7", "8", "9">>
digitOf(c) == (CHOOSE i \in 1..Len(Digits) : Digits[i] = c) - 1

RECURSIVE digitsValue(_, _)
digitsValue(s, acc) ==
    IF s = <<>> THEN acc ELSE digitsValue(Tail(s), acc * Len(Digits) + digitOf(Head(s)))

RECURSIVE lstrip(_, _)
lstrip(s, chars) ==
    IF s # <<>> /\ Head(s) \in chars THEN lstrip(Tail(s), chars) ELSE s

\* int(s): surrounding blanks and one sign are allowed, then digits only
int(s) ==
    LET t == rstrip(lstrip(s, {" "}), {" "})
        u == IF t # <<>> /\ Head(t) \in {"+", "-"} THEN Tail(t) ELSE t
        neg == t # <<>> /\ Head(t) = "-"
    IN IF u = <<>> \/ \E i \in 1..Len(u) : \A j \in 1..Len(Digits) : Digits[j] # u[i]
       THEN [ok |-> FALSE, val |-> 0]
       ELSE [ok |-> TRUE,
             val |-> IF neg THEN 0 - digitsValue(u, 0) ELSE digitsValue(u, 0)]

upper(s) ==
    CASE s = "power" -> <<"P", "O", "W", "E", "R">>
      [] s = "sn" -> <<"S", "N">>
      [] OTHER -> <<s>>

use_models_train == <<<<"g">>, <<"h">>>>

OUT_DIR(wwet, src) == pathJoin(INTERIM_DIR.path, wwet.path) \o <<"_">> \o upper(src)

\* lines 321-337: [status, write, dirs]
confirmWrite(wwet, src, ans) ==
    IF ~wwet.set THEN [status |-> "ok", write |-> NoWrite, dirs |-> {}]
    ELSE IF ~INTERIM_DIR.bound THEN [status |-> "NameError", write |-> NoWrite, dirs |-> {}]
    ELSE IF ~int(ans).ok THEN [status |-> "ValueError", write |-> NoWrite, dirs |-> {}]
    ELSE IF int(ans).val = 1
         THEN [status |-> "ok", write |-> WriteTo(OUT_DIR(wwet, src)),
               dirs |-> {pathJoin(OUT_DIR(wwet, src), use_models_train[i])
                         : i \in 1..Len(use_models_train)}]
         ELSE [status |-> "SystemExit", write |-> NoWrite, dirs |-> {}]

(***************************************************************************)
(* augment_data: the table and the tensor                                  *)
(***************************************************************************)
\* gt(x, ix)
gt(file, ix) == negIndex(split(file, "/"), ix)

modelOf(file, src) == gt(file, IF src # "sn" THEN 0 - 2 ELSE 0 - 3)
chordOf(file) == rstrip(gt(file, 0 - 1).val, {".", "w", "a", "v"})

\* the repetition done the other way round: the whole list n times over
RECURSIVE repeatEach_tiled(_, _)
repeatEach_tiled(l, n) == IF n = 0 THEN <<>> ELSE l \o repeatEach_tiled(l, n - 1)

\* itertools.chain.from_iterable([[m] * n for m in l])
RECURSIVE repeatEach(_, _)
repeatEach(l, n) ==
    IF l = <<>> THEN <<>>
    ELSE [i \in 1..n |-> Head(l)] \o repeatEach(Tail(l), n)

\* the value a column built from pd.Series(s) has in row i
seriesAt(s, i) == IF i <= Len(s) THEN s[i] ELSE <<"NaN">>

\* np.expand_dims(x, axis = 1)
expand_dims(f) == [shape |-> <<Len(f), 1>>, data |-> [i \in 1..Len(f) |-> <<f[i]>>]]

table(store, files, n, src) ==
    LET models == repeatEach([j \in 1..Len(files) |-> modelOf(files[j], src).val], n)
        chordnames == repeatEach([j \in 1..Len(files) |-> chordOf(files[j])], n)
    IN [r \in 1..Len(store) |->
          [labels |-> store[r].flat,
           model |-> seriesAt(models, r),
           chords |-> seriesAt(chordnames, r)]]

tensor(store) == pad([r \in 1..Len(store) |-> expand_dims(store[r].feature)])

\* lines 345-368: [status, X, Y]
assemble(store, files, n, src) ==
    IF store = <<>> THEN [status |-> "ValueError", X |-> <<>>, Y |-> <<>>]
    ELSE IF tensor(store).status # "ok"
         THEN [status |-> tensor(store).status, X |-> <<>>, Y |-> <<>>]
    ELSE IF \E j \in 1..Len(files) : ~modelOf(files[j], src).ok
         THEN [status |-> "IndexError", X |-> <<>>, Y |-> <<>>]
    ELSE [status |-> "ok", X |-> tensor(store).batch, Y |-> table(store, files, n, src)]

(***************************************************************************)
(* The states in which a part of the program has not been called.          *)
(***************************************************************************)
NoOut == [done |-> FALSE, d |-> <<>>]
NoValid == [called |-> FALSE, valid |-> FALSE, invalid |-> {}]

FlattenIdle == x = <<>> /\ out = NoOut /\ passes = 0
RandIdle == rx = IntV(0) /\ ry = IntV(0) /\ rres = NoRes
PadIdle == l_arrays = <<>> /\ batch_x = NoBatch
TrackIdle == t_file = <<>> /\ t_n = 0 /\ t_kwargs = [effects |-> <<>>] /\ t_res = NoTrack
RunIdle ==
    /\ train_soundfiles = <<>>
    /\ n_augment = 0
    /\ write_with_effects_to = NoWrite
    /\ answer = <<>>
    /\ valid = NoValid
    /\ err = "none"
    /\ store_all = <<>>
    /\ X_train = <<>>
    /\ Y_train = <<>>
    /\ made_dirs = {}
    /\ artifacts = {}
DataIdle ==
    /\ augmentation_config = [effects |-> <<>>, active |-> {}]
    /\ source = "power"
    /\ pc = "idle"
    /\ RunIdle

(***************************************************************************)
(* flatten on its own.  The mapping is built entry by entry and by         *)
(* nesting, to a bounded depth and width; then flatten is applied, and     *)
(* applied again to its own result.                                        *)
(***************************************************************************)
MaxDepth == 3
MaxEntries == 2
MaxPasses == 2

FlatKeys == {<<"a">>, <<"b">>, <<"a", ".", "b">>}
FlatVals == {1, 2}

RECURSIVE Depth(_)
Depth(d) ==
    IF d = <<>> THEN 1
    ELSE LET h == IF Head(d).v.leaf THEN 1 ELSE 1 + Depth(Head(d).v.items)
             t == Depth(Tail(d))
         IN IF h > t THEN h ELSE t

InitFlatten == FlattenIdle /\ RandIdle /\ PadIdle /\ TrackIdle /\ DataIdle

PutLeaf ==
    \E key \in FlatKeys, val \in FlatVals :
        /\ passes = 0
        /\ Len(x) < MaxEntries
        /\ ~DictHas(x, key)
        /\ x' = Append(x, [k |-> key, v |-> Leaf(val)])
        /\ UNCHANGED <<out, passes, randVars, padVars, trackVars, dataVars>>

\* x becomes {key: x}
Nest ==
    \E key \in FlatKeys :
        /\ passes = 0
        /\ Depth(x) < MaxDepth
        /\ x' = <<[k |-> key, v |-> Node(x)]>>
        /\ UNCHANGED <<out, passes, randVars, padVars, trackVars, dataVars>>

\* x gets an entry that is a one-leaf mapping
PutDict ==
    \E key \in FlatKeys, val \in FlatVals, sub \in FlatKeys :
        /\ passes = 0
        /\ Len(x) < MaxEntries
        /\ ~DictHas(x, key)
        /\ x' = Append(x, [k |-> key, v |-> Node(<<[k |-> sub, v |-> Leaf(val)]>>)])
        /\ UNCHANGED <<out, passes, randVars, padVars, trackVars, dataVars>>

Flatten ==
    /\ ~out.done
    /\ passes < MaxPasses
    /\ out' = [done |-> TRUE, d |-> flatten(x)]
    /\ passes' = passes + 1
    /\ UNCHANGED <<x, randVars, padVars, trackVars, dataVars>>

\* the result of flatten is handed to flatten again
FlattenAgain ==
    /\ out.done
    /\ passes < MaxPasses
    /\ x' = out.d
    /\ out' = NoOut
    /\ UNCHANGED <<passes, randVars, padVars, trackVars, dataVars>>

NextFlatten == PutLeaf \/ Nest \/ PutDict \/ Flatten \/ FlattenAgain

SpecFlatten == InitFlatten /\ [][NextFlatten]_vars

(***************************************************************************)
(* rand on its own: any two bounds, then one call.                         *)
(***************************************************************************)
MinNum == 2
MaxNum == 3

Numbers ==
    {FloatV(m) : m \in (0 - MinNum * Scale)..(MaxNum * Scale)}
    \cup {IntV(k) : k \in (0 - MinNum)..MaxNum}

InitRand ==
    /\ rx \in Numbers
    /\ ry \in Numbers
    /\ rres = NoRes
    /\ FlattenIdle /\ PadIdle /\ TrackIdle /\ DataIdle

Rand ==
    /\ ~rres.done
    /\ rres' \in rand(rx, ry)
    /\ UNCHANGED <<rx, ry, flattenVars, padVars, trackVars, dataVars>>

NextRand == Rand

SpecRand == InitRand /\ [][NextRand]_vars

(***************************************************************************)
(* pad on its own: a list of arrays of any shapes, then one call.  The     *)
(* entries of an array tell its place in the list, the row and the column; *)
(* none is zero.                                                           *)
(***************************************************************************)
MaxDim == 2
MaxArrays == 3

InitPad == PadIdle /\ FlattenIdle /\ RandIdle /\ TrackIdle /\ DataIdle

AppendArray ==
    \E r \in 0..MaxDim, c \in 0..MaxDim :
        LET pos == Len(l_arrays) + 1
            entry(i, j) == (pos * (MaxDim + 1) + i) * (MaxDim + 1) + j
        IN /\ ~batch_x.done
           /\ Len(l_arrays) < MaxArrays
           /\ l_arrays' = Append(l_arrays, Array(r, c, [i \in 1..r |-> [j \in 1..c |-> entry(i, j)]]))
           /\ UNCHANGED <<batch_x, flattenVars, randVars, trackVars, dataVars>>

Pad ==
    /\ ~batch_x.done
    /\ batch_x' = pad(l_arrays)
    /\ UNCHANGED <<l_arrays, flattenVars, randVars, trackVars, dataVars>>

NextPad == AppendArray \/ Pad

SpecPad == InitPad /\ [][NextPad]_vars

(***************************************************************************)
(* The configurations.                                                     *)
(***************************************************************************)
Policy(st, df, lo, up) == [state |-> st, default |-> df, lower |-> lo, upper |-> up]
Effect(name, d) == [k |-> name, v |-> Params(d)]
P(name, pol) == [k |-> name, v |-> pol]

LowBound == 5
HighBound == 3

OD1 == Effect("overdrive", <<P("gain_db", Policy("constant", TRUE, NoneV, NoneV))>>)
OD2 == Effect("overdrive", <<P("gain_db", Policy("random", FALSE, IntV(1), IntV(2))),
                             P("colour", Policy("constant", FALSE, NoneV, IntV(3)))>>)
OD3 == Effect("overdrive", <<P("gain_db", Policy("random", FALSE, IntV(LowBound), IntV(HighBound)))>>)
OD4 == Effect("overdrive", <<P("volume", Policy("constant", FALSE, NoneV, IntV(1)))>>)
RV1 == Effect("reverb", <<P("reverberance", Policy("constant", TRUE, NoneV, NoneV))>>)
RV2 == Effect("reverb", <<P("reverberance", Policy("random", FALSE, FloatV(0), FloatV(1)))>>)
RV3 == Effect("reverb", <<P("reverberance", Policy("random", FALSE, FloatV(1), IntV(2)))>>)
CP1 == Effect("compand", <<P("tf_points", Policy("constant", FALSE, NoneV, ListV(2))),
                           P("soft_knee_db", Policy("off", FALSE, NoneV, NoneV))>>)
CP2 == Effect("compand", <<P("tf_points", Policy("random", FALSE, IntV(LowBound), IntV(HighBound)))>>)
CP3 == Effect("compand", <<P("soft_knee_db", Policy("random", FALSE, IntV(2), IntV(2)))>>)
BG == Effect("bogus", <<>>)
NN == [k |-> "reverb", v |-> NoParams]

ActiveNames == {"overdrive", "reverb", "compand"}

\* the dicts of at most n entries of pool, in every insertion order
RECURSIVE DictsOf(_, _)
DictsOf(pool, n) ==
    IF n = 0 THEN {<<>>}
    ELSE LET prev == DictsOf(pool, n - 1)
         IN prev \cup {Append(pe[1], pe[2]) :
                         pe \in {q \in prev \X pool :
                                   Len(q[1]) = n - 1 /\ ~DictHas(q[1], q[2].k)}}

(***************************************************************************)
(* augment_track on its own: one call with any chain, policy, sustain set  *)
(* and write destination.                                                  *)
(***************************************************************************)
MaxChain == 3
MaxN == 1

TrackPool == {OD1, OD2, OD3, OD4, RV1, RV2, RV3, CP1, CP2, CP3, BG, NN}
Exercises == {"regression", "Classification", "classification"}
Sustains == {{"overdrive", "reverb"}, {"reverb"}}
Writes == {NoWrite, WriteTo(<<"o">>)}

InitTrack ==
    /\ t_file \in Files
    /\ t_n \in 0..MaxN
    /\ \E e \in DictsOf(TrackPool, MaxChain), ex \in Exercises, su \in Sustains, w \in Writes :
          \/ t_kwargs = [effects |-> e]
          \/ t_kwargs = [effects |-> e, exercise |-> ex, sustain |-> su, write |-> w]
          \/ t_kwargs = [effects |-> e, active |-> su]
    /\ t_res = NoTrack
    /\ FlattenIdle /\ RandIdle /\ PadIdle /\ DataIdle

AugmentTrack ==
    /\ ~t_res.done
    /\ t_res' \in augment_track(t_file, t_n, t_kwargs)
    /\ UNCHANGED <<t_file, t_n, t_kwargs, flattenVars, randVars, padVars, dataVars>>

NextTrack == AugmentTrack

SpecTrack == InitTrack /\ [][NextTrack]_vars

(***************************************************************************)
(* augment_data: a run.                                                    *)
(***************************************************************************)
MaxEffects == 3
MaxRows == 4

DataPool == {OD1, RV1, CP1, BG}
DataFiles == {FileA, FileB}
Sources == {"power", "sn"}
Answers == {<<"1">>, <<"0", "1">>, <<"2">>, <<"y">>}

\* the lists of at most n files
RECURSIVE FileLists(_)
FileLists(n) ==
    IF n = 0 THEN {<<>>}
    ELSE LET prev == FileLists(n - 1)
         IN prev \cup {Append(l, f) : l \in {q \in prev : Len(q) = n - 1}, f \in DataFiles}

Init ==
    /\ \E e \in DictsOf(DataPool, MaxEffects), a \in SUBSET ActiveNames :
          \/ augmentation_config = [effects |-> e, active |-> a]
          \/ augmentation_config = [effects |-> e, active |-> a, exercise |-> "Classification"]
    /\ source \in Sources
    /\ pc = "start"
    /\ RunIdle
    /\ FlattenIdle /\ RandIdle /\ PadIdle /\ TrackIdle

\* lines 271-337: the files, the validation, the chain, the confirmation
Configure ==
    \E files \in FileLists(MaxRows), n \in 1..MaxRows, wwet \in Writes, ans \in Answers :
        LET v == validate_reduce_fx(augmentation_config.effects)
            effects == reduceToActive(v.effects, augmentation_config.active)
            cfg == With(Without(augmentation_config, "active"),
                        "effects", ordered_effects(effects))
            cw == confirmWrite(wwet, source, ans)
        IN /\ pc = "start"
           /\ Len(files) * n <= MaxRows
           /\ write_with_effects_to' = wwet
           /\ answer' = IF wwet.set THEN ans ELSE <<>>
           /\ valid' = [called |-> TRUE, valid |-> v.valid, invalid |-> v.invalid]
           /\ IF ~v.isdict
              THEN /\ pc' = "raised"
                   /\ err' = "AttributeError"
                   /\ files = <<>> /\ n = 1
                   /\ UNCHANGED <<augmentation_config, made_dirs, train_soundfiles, n_augment>>
              ELSE IF cw.status # "ok"
              THEN /\ pc' = IF cw.status = "SystemExit" THEN "exited" ELSE "raised"
                   /\ err' = cw.status
                   /\ augmentation_config' = cfg
                   /\ files = <<>> /\ n = 1
                   /\ UNCHANGED <<made_dirs, train_soundfiles, n_augment>>
              ELSE /\ pc' = "augmenting"
                   /\ augmentation_config' =
                          IF cw.write.set THEN With(cfg, "write", cw.write) ELSE cfg
                   /\ made_dirs' = cw.dirs
                   /\ train_soundfiles' = files
                   /\ n_augment' = n
                   /\ UNCHANGED err
           /\ UNCHANGED <<source, store_all, X_train, Y_train, artifacts>>
           /\ UNCHANGED <<flattenVars, randVars, padVars, trackVars>>

\* line 343: one augment_track call of the loops over the files and range(n_augment)
AugmentNext ==
    /\ pc = "augmenting"
    /\ Len(store_all) < Len(train_soundfiles) * n_augment
    /\ LET sf == train_soundfiles[Len(store_all) \div n_augment + 1]
           i == Len(store_all) % n_augment
       IN \E r \in augment_track(sf, i, augmentation_config) :
             IF r.status = "ok"
             THEN store_all' = Append(store_all, r) /\ UNCHANGED <<pc, err>>
             ELSE pc' = "raised" /\ err' = r.status /\ UNCHANGED store_all
    /\ UNCHANGED <<augmentation_config, source, train_soundfiles, n_augment,
                   write_with_effects_to, answer, valid, X_train, Y_train,
                   made_dirs, artifacts>>
    /\ UNCHANGED <<flattenVars, randVars, padVars, trackVars>>

\* lines 345-368: the tensor, the table, the training set
Assemble ==
    \E make_training_set \in BOOLEAN :
        LET a == assemble(store_all, train_soundfiles, n_augment, source)
        IN /\ pc = "augmenting"
           /\ Len(store_all) = Len(train_soundfiles) * n_augment
           /\ IF a.status = "ok"
              THEN /\ X_train' = a.X
                   /\ Y_train' = a.Y
                   /\ artifacts' = IF make_training_set
                                   THEN {"training_X", "training_Y"} ELSE {}
                   /\ pc' = "done"
                   /\ UNCHANGED err
              ELSE /\ pc' = "raised"
                   /\ err' = a.status
                   /\ UNCHANGED <<X_train, Y_train, artifacts>>
           /\ UNCHANGED <<augmentation_config, source, train_soundfiles, n_augment,
                          write_with_effects_to, answer, valid, store_all, made_dirs>>
           /\ UNCHANGED <<flattenVars, randVars, padVars, trackVars>>

Next == Configure \/ AugmentNext \/ Assemble

Spec == Init /\ [][Next]_vars

(***************************************************************************)
(* Properties                                                              *)
(***************************************************************************)
chainOf(cfg) == cfg.effects

\* the step of a run that hands the chain over to the loop of augment_track calls
ChainHandedOver == pc = "start" /\ pc' = "augmenting"

\* the step of a run in which one augment_track call returns
TrackReturned == pc = "augmenting" /\ Len(store_all') = Len(store_all) + 1

\* a is c without some of its elements, in the same order
RECURSIVE IsSubsequence(_, _)
IsSubsequence(a, c) ==
    IF a = <<>> THEN TRUE
    ELSE IF c = <<>> THEN FALSE
    ELSE IF Head(a) = Head(c) THEN IsSubsequence(Tail(a), Tail(c))
    ELSE IsSubsequence(a, Tail(c))

(* C1: when the active list holds "overdrive" and "reverb", the chain that  *)
(* augment_data hands to augment_track starts with "overdrive", ends with  *)
(* "reverb" and has every other configured active effect strictly between  *)
(* them, whatever the insertion order of the configuration; and a call     *)
(* that returns has applied effects in the order of the chain, "overdrive" *)
(* first and "reverb" last.                                                *)
C1_ChainOrder ==
    [][ /\ (ChainHandedOver /\ {"overdrive", "reverb"} \subseteq augmentation_config.active) =>
            LET c == chainOf(augmentation_config')
                others == (DictKeys(chainOf(augmentation_config))
                             \cap augmentation_config.active) \ {"overdrive", "reverb"}
            IN /\ Len(c) >= 2
               /\ c[1].k = "overdrive"
               /\ c[Len(c)].k = "reverb"
               /\ \A e \in others : \E i \in 2..(Len(c) - 1) : c[i].k = e
        /\ TrackReturned =>
            LET a == store_all'[Len(store_all')].applied
                c == chainOf(augmentation_config)
            IN /\ IsSubsequence(a, [i \in 1..Len(c) |-> c[i].k])
               /\ Len(a) >= 1
               /\ a[1] = "overdrive"
               /\ a[Len(a)] = "reverb"
      ]_vars

C1_Witness ==
    /\ pc = "augmenting"
    /\ Len(chainOf(augmentation_config)) = 3
    /\ chainOf(augmentation_config)[2].k = "compand"
    /\ store_all # <<>>
    /\ store_all[1].applied = <<"overdrive", "compand", "reverb">>

(* C2: a completed run returns a tensor and a table of len(F) * n_augment  *)
(* rows each; row j * n_augment + i of both belongs to file F[j]: its      *)
(* group is i, its model and chords are the ones parsed from the path of   *)
(* F[j], and its slice of the tensor is the feature vector of F[j], padded *)
(* with zeros.                                                             *)
C2_RowsAligned ==
    pc = "done" =>
        /\ Len(X_train) = Len(train_soundfiles) * n_augment
        /\ Len(Y_train) = Len(train_soundfiles) * n_augment
        /\ \A j \in 1..Len(train_soundfiles) : \A i \in 0..(n_augment - 1) :
              LET r == (j - 1) * n_augment + i + 1
                  file == train_soundfiles[j]
                  feat == feature_pipeline(file)
              IN /\ DictVal(Y_train[r].labels, <<"group">>) = Leaf(i)
                 /\ Y_train[r].model = modelOf(file, source).val
                 /\ Y_train[r].chords = chordOf(file)
                 /\ X_train[r].shape[2] = 1
                 /\ \A m \in 1..X_train[r].shape[1] :
                       X_train[r].data[m][1] = IF m <= Len(feat) THEN feat[m] ELSE 0

C2_Witness ==
    /\ pc = "done"
    /\ Len(train_soundfiles) = 2
    /\ n_augment = 2
    /\ train_soundfiles[1] # train_soundfiles[2]
    /\ source = "sn"
    /\ Len(Y_train) = 4

(* C3: for one augment_track call that returns: under the regression       *)
(* policy every effect of the chain is applied and has a label entry;      *)
(* under the classification policy every effect of the chain that is in    *)
(* the sustain set is applied and has a label entry, and every other       *)
(* effect is either applied with a label entry or skipped, with no key in  *)
(* the flattened labels and no transformation; in both the effects with    *)
(* labels are the effects applied.                                         *)
IsClassification(kw) ==
    "exercise" \in DOMAIN kw /\ kw.exercise \in {"classification", "Classification"}

SustainOf(kw) == IF "sustain" \in DOMAIN kw THEN kw.sustain ELSE {"overdrive", "reverb"}

AppliedSet(res) == {res.applied[i] : i \in 1..Len(res.applied)}

C3_LabelsAreApplied ==
    (t_res.done /\ t_res.status = "ok") =>
        LET chain == {t_kwargs.effects[i].k : i \in 1..Len(t_kwargs.effects)}
            applied == AppliedSet(t_res)
        IN /\ DictKeys(t_res.labels) = applied
           /\ applied \subseteq chain
           /\ ~IsClassification(t_kwargs) => applied = chain
           /\ IsClassification(t_kwargs) => (chain \cap SustainOf(t_kwargs)) \subseteq applied
           /\ \A key \in DictKeys(t_res.flat) :
                 key # <<"group">> => key[1] \in applied
           /\ \A e \in applied :
                 \A p \in DictKeys(DictVal(t_res.labels, e)) :
                    DictHas(t_res.flat, <<e, ".", p>>)

C3_Witness ==
    /\ t_res.done
    /\ t_res.status = "ok"
    /\ IsClassification(t_kwargs)
    /\ Len(t_kwargs.effects) = 3
    /\ t_res.applied = <<"reverb">>
    /\ DictKeys(t_res.flat) = {<<"reverb", ".", "reverberance">>, <<"group">>}

(* C4: the place of a parameter in a call.  Resolution is sure to reach    *)
(* parameter j of effect i when the call takes its keywords, the effect    *)
(* proceeds (it is exempt from the coin), every effect before it is        *)
(* supported and has only constant parameters of its own signature, and so *)
(* are the parameters before j.                                            *)
ConstantOnly(entry, upto) ==
    /\ entry.k \in sox_arsenal
    /\ ~entry.v.none
    /\ \A m \in 1..upto :
          /\ entry.v.items[m].v.state = "constant"
          /\ DictHas(f_defaults(entry.k), entry.v.items[m].k)

Reached(kw, i, j) ==
    LET chain == kw.effects
    IN /\ DOMAIN kw \subseteq trackKeywords
       /\ ~IsClassification(kw) \/ chain[i].k \in SustainOf(kw)
       /\ \A e \in 1..(i - 1) : ConstantOnly(chain[e], Len(chain[e].v.items))
       /\ chain[i].k \in sox_arsenal
       /\ ~chain[i].v.none
       /\ ConstantOnly(chain[i], j - 1)

BadBounds(pol) ==
    /\ pol.state = "random"
    /\ pol.lower.t = "num" /\ pol.upper.t = "num"
    /\ pol.upper.n <= pol.lower.n

BadParams(kw) ==
    UNION {IF kw.effects[i].v.none THEN {}
           ELSE {<<i, j>> : j \in {m \in 1..Len(kw.effects[i].v.items) :
                                     /\ BadBounds(kw.effects[i].v.items[m].v)
                                     /\ Reached(kw, i, m)}}
           : i \in 1..Len(kw.effects)}

ListDefault(kw, ij) ==
    defaultOf(kw.effects[ij[1]].k, kw.effects[ij[1]].v.items[ij[2]].k).t = "list"

NothingReturned(res) == res.flat = <<>> /\ res.feature = <<>>

(* C4 as claimed: a random parameter that resolution reaches with          *)
(* upper <= lower raises the assertion failure, which propagates, and      *)
(* nothing is returned.                                                    *)
C4_Claimed ==
    t_res.done =>
        \A ij \in BadParams(t_kwargs) :
            t_res.status = "AssertionError" /\ NothingReturned(t_res)

(* C4: a random parameter that resolution reaches with upper <= lower      *)
(* raises the assertion failure when the library default of the parameter  *)
(* is not a list, and the type error when it is; either propagates and     *)
(* nothing is returned.                                                    *)
C4_BoundsViolation ==
    t_res.done =>
        \A ij \in BadParams(t_kwargs) :
            /\ ~ListDefault(t_kwargs, ij) => t_res.status = "AssertionError"
            /\ ListDefault(t_kwargs, ij) => t_res.status = "TypeError"
            /\ NothingReturned(t_res)

C4_Witness ==
    /\ t_res.done
    /\ t_res.status = "AssertionError"
    /\ \E ij \in BadParams(t_kwargs) :
          /\ ij[1] = 2
          /\ t_kwargs.effects[ij[1]].v.items[ij[2]].v.lower = IntV(LowBound)
          /\ t_kwargs.effects[ij[1]].v.items[ij[2]].v.upper = IntV(HighBound)

(* C5, for bounds given in order (x <= y): rand(x, y) returns a value      *)
(* between the bounds: a float when both bounds are below 1, an integer    *)
(* when at least one is >= 1, also when the other one is a fraction below  *)
(* 1.                                                                      *)
C5_Claimed ==
    (rres.done /\ rx.n <= ry.n) =>
        /\ rres.status = "ok"
        /\ Min(rx.n, ry.n) <= rres.val.n
        /\ rres.val.n <= Max(rx.n, ry.n)
        /\ (rx.n < One /\ ry.n < One) => rres.val.f
        /\ (rx.n >= One \/ ry.n >= One) => (~rres.val.f /\ IsIntegral(rres.val))

(* C6: flatten(x) has one key per leaf of x, the '.'-joined path of keys   *)
(* from the root to the leaf, mapped to the value of the leaf; and         *)
(* flatten(x) = x when no value of x is a mapping.                         *)
RECURSIVE LeafPaths(_, _)
LeafPaths(d, path) ==
    UNION {IF d[i].v.leaf
           THEN {[path |-> Append(path, d[i].k), val |-> d[i].v.val]}
           ELSE LeafPaths(d[i].v.items, Append(path, d[i].k))
           : i \in 1..Len(d)}

RECURSIVE Joined(_)
Joined(path) ==
    IF Len(path) = 1 THEN path[1]
    ELSE path[1] \o sep \o Joined(Tail(path))

IsFlat(d) == \A i \in 1..Len(d) : d[i].v.leaf

C6_Claimed ==
    out.done =>
        /\ Len(out.d) = Cardinality(LeafPaths(x, <<>>))
        /\ \A lp \in LeafPaths(x, <<>>) :
              /\ DictHas(out.d, Joined(lp.path))
              /\ DictVal(out.d, Joined(lp.path)) = Leaf(lp.val)
        /\ IsFlat(x) => out.d = x

(* C7: the shape pad pads to, and what a padded batch must be.             *)
ChosenShape(l) ==
    l[CHOOSE k \in 1..Len(l) :
         /\ \A m \in 1..Len(l) : l[m].shape[1] <= l[k].shape[1]
         /\ \A m \in 1..(k - 1) : l[m].shape[1] < l[k].shape[1]].shape

Padded(l, b) ==
    /\ b.status = "ok"
    /\ Len(b.batch) = Len(l)
    /\ \A k \in 1..Len(l) :
          /\ b.batch[k].shape = ChosenShape(l)
          /\ \A i \in 1..l[k].shape[1] : \A j \in 1..l[k].shape[2] :
                /\ i <= ChosenShape(l)[1]
                /\ j <= ChosenShape(l)[2]
                /\ b.batch[k].data[i][j] = l[k].data[i][j]
          /\ \A i \in 1..ChosenShape(l)[1] : \A j \in 1..ChosenShape(l)[2] :
                (i > l[k].shape[1] \/ j > l[k].shape[2]) => b.batch[k].data[i][j] = 0

(* C7 as claimed: for every non-empty list of 2-D arrays pad returns one   *)
(* slice per input, in order, of the shape of the input with the largest   *)
(* first dimension, equal to the input in its top-left region and zero     *)
(* outside.                                                                *)
C7_Claimed ==
    (batch_x.done /\ l_arrays # <<>>) => Padded(l_arrays, batch_x)

(* C7: the same, for the non-empty lists in which no array is wider (in    *)
(* its second dimension) than the input chosen as the maximum, the first   *)
(* of those with the largest first dimension.                              *)
C7_PadTopLeft ==
    (/\ batch_x.done
     /\ l_arrays # <<>>
     /\ \A k \in 1..Len(l_arrays) : l_arrays[k].shape[2] <= ChosenShape(l_arrays)[2])
    => Padded(l_arrays, batch_x)

C7_Witness ==
    /\ batch_x.done
    /\ batch_x.status = "ok"
    /\ Len(l_arrays) = 3
    /\ l_arrays[1].shape = <<1, 1>>
    /\ l_arrays[2].shape = <<2, 2>>
    /\ l_arrays[3].shape = <<2, 1>>
    /\ batch_x.batch[3].data[2][2] = 0
    /\ batch_x.batch[3].data[2][1] = l_arrays[3].data[2][1]

(* C8: with writing of augmented audio requested, no directory is made and *)
(* nothing is written before the prompt is answered; on the answer "1" the *)
(* run proceeds and every augment_track call gets the write destination;   *)
(* on any other answer the process ends with an error exit before any      *)
(* directory is made, any track augmented or any artifact written.         *)
C8_Claimed ==
    (write_with_effects_to.set /\ pc # "start" /\ valid.valid) =>
        /\ answer = <<"1">> =>
              /\ "write" \in DOMAIN augmentation_config
              /\ pc # "exited"
        /\ answer # <<"1">> =>
              /\ pc \in {"exited", "raised"}
              /\ made_dirs = {}
              /\ store_all = <<>>
              /\ artifacts = {}

(* C9: validate_reduce_fx does not raise; it gives (True, the mapping) when *)
(* every configured name is supported and (False, the unsupported names)   *)
(* otherwise; and augment_data goes on either way: it reduces the effects  *)
(* to the active ones and continues, rather than stopping at the           *)
(* validation.                                                             *)
C9_Claimed ==
    valid.called =>
        /\ valid.valid <=> valid.invalid = {}
        /\ valid.invalid \cap sox_arsenal = {}
        /\ "active" \notin DOMAIN augmentation_config

(* C10: the chain handed to augment_track holds exactly the effects that   *)
(* are configured and listed as active, each with its configured           *)
(* parameters, whatever the active list; and the keywords of augment_track *)
(* hold no 'active'.                                                       *)
C10_Claimed ==
    [][ ChainHandedOver =>
          LET c == chainOf(augmentation_config')
              configured == chainOf(augmentation_config)
          IN /\ DictKeys(c) = DictKeys(configured) \cap augmentation_config.active
             /\ \A e \in DictKeys(c) : DictVal(c, e) = DictVal(configured, e)
             /\ "active" \notin DOMAIN augmentation_config'
      ]_vars

====
